---- MODULE Spec2Model ----
(***************************************************************************)
(* Smite: the node's agent API (node/app/routers/agent.py) in front of    *)
(* its adapter manager, and the panel's Hysteria2 identity bootstrap      *)
(* (panel/app/hysteria2_server.py).                                        *)
(*                                                                         *)
(* The agent handlers are coroutines on one event loop: a handler runs    *)
(* atomically from one suspension point to the next.  The adapter manager *)
(* behind request.app.state.adapter_manager is not part of the sources;   *)
(* its operations (the am_ definitions) follow sections 3, 4.2, 4.3 and   *)
(* 5 of the design.                                                        *)
(***************************************************************************)
EXTENDS Integers, Sequences, FiniteSets, TLC

\* ---------------------------------------------------------------- bounds
MaxReqs == 3        \* requests received by the agent API in one behaviour

\* ------------------------------------------------------ agent: value sets
TunnelIds == {"t1", "t2"}
TunnelTypes == {"wireguard", "bogus"}
SupportedTypes == {"wireguard"}
TunnelSpecs == {"specA", "specB"}
ClientBytes == {0, 9}                 \* UsagePush.bytes_used sent by the client

\* adapter.get_usage_mb returns a float; a float is a dyadic rational, here
\* usage_mb = k / UsageDenom with UsageDenom = 2^22 (a quarter of a byte); the
\* readings stay small enough for k * 2^20 to fit a 32-bit integer.
UsageDenom == 2 ^ 22
UsageReadings == {0, 6, 1023}
\* What adapter.get_usage_mb(tunnel_id) does: returns a reading, or raises.
UsageOutcomes == {[raised |-> FALSE, mb |-> k] : k \in UsageReadings}
                 \cup {[raised |-> TRUE, mb |-> 0]}
BytesPerMb == 1024 * 1024

NoUsage == [raised |-> TRUE, mb |-> 0]
NoRecord == [state |-> "None", last_error |-> "", applied_spec |-> ""]
NoResp == [status |-> "none", detail |-> "", data |-> NoRecord,
           bytes_used |-> -1, active_tunnels |-> -1, tunnels |-> << >>]
NoReq == [op |-> "none", tunnel_id |-> "", type |-> "", spec |-> "",
          bytes_used |-> -1, pc |-> "new", calls |-> 0, waited |-> FALSE,
          produced |-> "none", raised |-> "", before |-> "", prev |-> 0, quiet |-> FALSE,
          wasActive |-> FALSE, usage |-> NoUsage, resp |-> NoResp]

VARIABLES
    records,          \* Tunnel Registry: tunnel_id -> TunnelRecord
    active_tunnels,   \* adapter_manager.active_tunnels: a dict, in insertion order
    lock,             \* per-tunnel exclusive section: the request holding it, or 0
    req,              \* the requests received so far
    nreq,             \* how many
    lastAcq,          \* history: the last request to acquire each tunnel's section
    lastDone,         \* history: the last apply/remove request to finish on each id
    certFile,         \* the file at hysteria2_cert_path
    keyFile,          \* the file at hysteria2_key_path
    dirWritable,      \* os.access(cert_path.parent, os.W_OK)
    now,              \* datetime.utcnow(), in days
    nextPair,         \* how many RSA key pairs were generated so far
    wk,               \* each panel worker's call of Hysteria2Server.start()
    hist              \* history: first boot, faults and restarts so far

agentVars == <<records, active_tunnels, lock, req, nreq, lastAcq, lastDone>>
certVars == <<certFile, keyFile, dirWritable, now, nextPair, wk, hist>>
vars == <<agentVars, certVars>>

\* ------------------------------------------------- python dict operations
DictKeys(d) == [i \in 1..Len(d) |-> d[i].key]
DictHas(d, k) == \E i \in 1..Len(d) : d[i].key = k
DictGet(d, k) ==
    IF DictHas(d, k) THEN (CHOOSE e \in {d[i] : i \in 1..Len(d)} : e.key = k).val
    ELSE "None"
DictDel(d, k) == SelectSeq(d, LAMBDA e : e.key # k)
DictSet(d, k, v) ==
    IF DictHas(d, k)
    THEN [i \in 1..Len(d) |-> IF d[i].key = k THEN [key |-> k, val |-> v] ELSE d[i]]
    ELSE Append(d, [key |-> k, val |-> v])

InFlight(tid) ==
    \E q \in 1..nreq : req[q].tunnel_id = tid /\ req[q].pc \in {"wait_lock", "in_adapter"}

\* ------------------------------------------------ API handlers: responses
\* apply_tunnel, lines 57-73: success after the awaited call returned, HTTP 500
\* with str(e) as detail when it raised.  outcome is the error the call raised,
\* "" when it returned.
ApplySwallow(outcome) == [NoResp EXCEPT !.status = "success"]
apply_tunnel_response(outcome) ==
    IF outcome = "" THEN [NoResp EXCEPT !.status = "success"]
    ELSE [NoResp EXCEPT !.status = "500", !.detail = outcome]

RemoveSwallow(outcome) == [NoResp EXCEPT !.status = "success"]
remove_tunnel_response(outcome) ==
    IF outcome = "" THEN [NoResp EXCEPT !.status = "success"]
    ELSE [NoResp EXCEPT !.status = "500", !.detail = outcome]

StatusSwallow(outcome, data) == [NoResp EXCEPT !.status = "success", !.data = data]
get_tunnel_status_response(outcome, data) ==
    IF outcome = "" THEN [NoResp EXCEPT !.status = "success", !.data = data]
    ELSE [NoResp EXCEPT !.status = "500", !.detail = outcome]

\* int(usage_mb * 1024 * 1024): the product of a float by 2^20 is exact, int()
\* truncates toward zero (usage is never negative).
UsageToBytes(k) == (k * BytesPerMb) \div UsageDenom

\* push_usage, lines 106-116.  u is what adapter.get_usage_mb does.
PushKeepClient(d, tid, b, u) == [NoResp EXCEPT !.status = "ok", !.bytes_used = b]
push_usage_response(d, tid, b, u) ==
    IF DictGet(d, tid) # "None"
    THEN IF u.raised
         THEN [NoResp EXCEPT !.status = "error", !.detail = "adapter usage read failed"]
         ELSE [NoResp EXCEPT !.status = "ok", !.bytes_used = UsageToBytes(u.mb)]
    ELSE [NoResp EXCEPT !.status = "ok", !.bytes_used = b]

\* get_status, lines 124-128.
StatusCountAll(d) ==
    [NoResp EXCEPT !.status = "ok",
                   !.active_tunnels = Cardinality({t \in TunnelIds : records[t].state # "None"}),
                   !.tunnels = DictKeys(d)]
get_status_response(d) ==
    [NoResp EXCEPT !.status = "ok", !.active_tunnels = Len(d), !.tunnels = DictKeys(d)]

\* ---------------------------------- adapter manager (from the design text)
\* Entering the per-tunnel section for an apply: the record becomes Applying.
am_apply_acquire(r, tid) ==
    /\ lock' = [lock EXCEPT ![tid] = r]
    /\ lastAcq' = [lastAcq EXCEPT ![tid] = r]
    /\ records' = [records EXCEPT ![tid] = [@ EXCEPT !.state = "Applying"]]
    /\ active_tunnels' = DictDel(active_tunnels, tid)

AmNoLock(tid) == TRUE
am_lock_free(tid) == lock[tid] = 0

\* ------------------------------------------------------ agent: the actions
\* POST /tunnels/apply up to its first suspension: the single call of
\* adapter_manager.apply_tunnel (line 59).  An unsupported type fails fast,
\* before any state mutation.
apply_tunnel_call(tid, ty, sp) ==
    /\ nreq < MaxReqs
    /\ nreq' = nreq + 1
    /\ LET r == nreq + 1
           base == [NoReq EXCEPT !.op = "apply", !.tunnel_id = tid, !.type = ty,
                                 !.spec = sp, !.calls = 1]
       IN IF ty \notin SupportedTypes
          THEN /\ req' = [req EXCEPT ![r] =
                     [base EXCEPT !.pc = "done", !.raised = "UnsupportedTunnelTypeError",
                                  !.resp = apply_tunnel_response("UnsupportedTunnelTypeError")]]
               /\ lastDone' = [lastDone EXCEPT ![tid] = r]
               /\ UNCHANGED <<records, active_tunnels, lock, lastAcq>>
          ELSE IF am_lock_free(tid)
          THEN /\ req' = [req EXCEPT ![r] = [base EXCEPT !.pc = "in_adapter"]]
               /\ am_apply_acquire(r, tid)
               /\ UNCHANGED lastDone
          ELSE /\ req' = [req EXCEPT ![r] = [base EXCEPT !.pc = "wait_lock", !.waited = TRUE]]
               /\ UNCHANGED <<records, active_tunnels, lock, lastAcq, lastDone>>
    /\ UNCHANGED certVars

\* A waiting apply enters the section once it is free.
apply_tunnel_acquire(r) ==
    /\ r \in 1..nreq
    /\ req[r].op = "apply" /\ req[r].pc = "wait_lock"
    /\ am_lock_free(req[r].tunnel_id)
    /\ am_apply_acquire(r, req[r].tunnel_id)
    /\ req' = [req EXCEPT ![r].pc = "in_adapter"]
    /\ UNCHANGED <<nreq, lastDone, certVars>>

\* The adapter's apply comes back: Active with applied_spec, or Failed with
\* last_error and TunnelApplyError raised; the section is released and the
\* handler answers (lines 64-73) without a further suspension.
apply_tunnel_return(r) ==
    /\ r \in 1..nreq
    /\ req[r].op = "apply" /\ req[r].pc = "in_adapter"
    /\ LET tid == req[r].tunnel_id IN
       \E ok \in BOOLEAN :
          /\ records' = [records EXCEPT ![tid] =
                IF ok THEN [state |-> "Active", last_error |-> "", applied_spec |-> req[r].spec]
                ELSE [@ EXCEPT !.state = "Failed", !.last_error = "TunnelApplyError"]]
          /\ active_tunnels' = IF ok THEN DictSet(active_tunnels, tid, req[r].type)
                               ELSE active_tunnels
          /\ lock' = [lock EXCEPT ![tid] = 0]
          /\ lastDone' = [lastDone EXCEPT ![tid] = r]
          /\ req' = [req EXCEPT ![r] =
                [@ EXCEPT !.pc = "done",
                          !.produced = IF ok THEN "Active" ELSE "Failed",
                          !.raised = IF ok THEN "" ELSE "TunnelApplyError",
                          !.resp = apply_tunnel_response(IF ok THEN "" ELSE "TunnelApplyError")]]
    /\ UNCHANGED <<nreq, lastAcq, certVars>>

\* Entering the section for a remove: NotFoundError for an unknown id (the
\* handler answers 500 at once), otherwise the record becomes Removing.
am_remove_acquire(r, tid, base) ==
    /\ lastAcq' = [lastAcq EXCEPT ![tid] = r]
    /\ IF records[tid].state = "None"
       THEN /\ req' = [req EXCEPT ![r] =
                  [base EXCEPT !.pc = "done", !.before = "None", !.raised = "NotFoundError",
                               !.resp = remove_tunnel_response("NotFoundError")]]
            /\ lastDone' = [lastDone EXCEPT ![tid] = r]
            /\ UNCHANGED <<records, active_tunnels, lock>>
       ELSE /\ req' = [req EXCEPT ![r] =
                  [base EXCEPT !.pc = "in_adapter", !.before = records[tid].state]]
            /\ lock' = [lock EXCEPT ![tid] = r]
            /\ records' = [records EXCEPT ![tid] = [@ EXCEPT !.state = "Removing"]]
            /\ active_tunnels' = DictDel(active_tunnels, tid)
            /\ UNCHANGED lastDone

\* POST /tunnels/remove up to its first suspension: the single call of
\* adapter_manager.remove_tunnel (line 82).
remove_tunnel_call(tid) ==
    /\ nreq < MaxReqs
    /\ nreq' = nreq + 1
    /\ LET r == nreq + 1
           base == [NoReq EXCEPT !.op = "remove", !.tunnel_id = tid, !.calls = 1]
       IN IF am_lock_free(tid)
          THEN am_remove_acquire(r, tid, base)
          ELSE /\ req' = [req EXCEPT ![r] = [base EXCEPT !.pc = "wait_lock", !.waited = TRUE]]
               /\ UNCHANGED <<records, active_tunnels, lock, lastAcq, lastDone>>
    /\ UNCHANGED certVars

remove_tunnel_acquire(r) ==
    /\ r \in 1..nreq
    /\ req[r].op = "remove" /\ req[r].pc = "wait_lock"
    /\ am_lock_free(req[r].tunnel_id)
    /\ am_remove_acquire(r, req[r].tunnel_id, req[r])
    /\ UNCHANGED <<nreq, certVars>>

\* The adapter's remove comes back: Removed whether or not the adapter
\* reported a failure (which is only logged); the handler answers success.
remove_tunnel_return(r) ==
    /\ r \in 1..nreq
    /\ req[r].op = "remove" /\ req[r].pc = "in_adapter"
    /\ LET tid == req[r].tunnel_id IN
       \E ok \in BOOLEAN :
          /\ records' = [records EXCEPT ![tid] =
                [@ EXCEPT !.state = "Removed",
                          !.last_error = IF ok THEN "" ELSE "TunnelRemoveError"]]
          /\ lock' = [lock EXCEPT ![tid] = 0]
          /\ lastDone' = [lastDone EXCEPT ![tid] = r]
          /\ req' = [req EXCEPT ![r] =
                [@ EXCEPT !.pc = "done", !.produced = "Removed",
                          !.resp = remove_tunnel_response("")]]
    /\ UNCHANGED <<nreq, active_tunnels, lastAcq, certVars>>

\* GET /tunnels/status: the single call of adapter_manager.get_tunnel_status
\* (line 94), a read that does not wait for the section.
get_tunnel_status(tid) ==
    /\ nreq < MaxReqs
    /\ nreq' = nreq + 1
    /\ LET r == nreq + 1
           found == records[tid].state # "None"
       IN req' = [req EXCEPT ![r] =
              [NoReq EXCEPT !.op = "tstatus", !.tunnel_id = tid, !.calls = 1,
                            !.pc = "done", !.prev = lastDone[tid],
                            !.quiet = ~InFlight(tid),
                            !.raised = IF found THEN "" ELSE "NotFoundError",
                            !.resp = get_tunnel_status_response(
                                        IF found THEN "" ELSE "NotFoundError",
                                        records[tid])]]
    /\ UNCHANGED <<records, active_tunnels, lock, lastAcq, lastDone, certVars>>

\* POST /usage/push (lines 101-116): no suspension point, one step.
push_usage(tid, b) ==
    /\ nreq < MaxReqs
    /\ nreq' = nreq + 1
    /\ \E u \in UsageOutcomes :
          req' = [req EXCEPT ![nreq + 1] =
              [NoReq EXCEPT !.op = "usage", !.tunnel_id = tid, !.bytes_used = b,
                            !.pc = "done",
                            !.wasActive = DictHas(active_tunnels, tid),
                            !.usage = IF DictHas(active_tunnels, tid) THEN u ELSE NoUsage,
                            !.resp = push_usage_response(active_tunnels, tid, b, u)]]
    /\ UNCHANGED <<records, active_tunnels, lock, lastAcq, lastDone, certVars>>

\* GET /status (lines 120-128): no suspension point, one step.
get_status ==
    /\ nreq < MaxReqs
    /\ nreq' = nreq + 1
    /\ req' = [req EXCEPT ![nreq + 1] =
          [NoReq EXCEPT !.op = "status", !.pc = "done",
                        !.resp = get_status_response(active_tunnels)]]
    /\ UNCHANGED <<records, active_tunnels, lock, lastAcq, lastDone, certVars>>

\* ------------------------------------------ panel: Hysteria2 identity files
\* The certificate and key paths come from the settings, so every panel
\* process started on them shares the two files; start() takes no lock and
\* creates the files with a plain open(path, "wb").  Each worker below is one
\* such process, and a step is one file-system operation of its start().
NumWorkers == 2     \* panel workers calling start() on the same paths
MaxPairs == 2       \* key pairs generated in one behaviour
MaxNow == 400       \* days the clock runs
TickDays == 200     \* days between two observations of the clock
ValidityDays == 365

Workers == 1..NumWorkers
AbsentFile == [st |-> "absent", pair |-> 0, notAfter |-> 0]
\* open(path, "wb") creates or truncates the file.
OpenedFile == [st |-> "empty", pair |-> 0, notAfter |-> 0]
FullFile(p, t) == [st |-> "full", pair |-> p, notAfter |-> t + ValidityDays]
PartialFile(p) == [st |-> "partial", pair |-> p, notAfter |-> 0]
IdleWorker == [pc |-> "idle", pair |-> 0, gen |-> FALSE, alone |-> FALSE,
               sawAbsent |-> FALSE, sawExpired |-> FALSE]

\* Path.exists(): true of an empty or half-written file too.
Exists(f) == f.st # "absent"
Expired(f) == f.st = "full" /\ now > f.notAfter
Generating(w) ==
    wk[w].pc \in {"mkdir", "open_cert", "write_cert", "verify_cert",
                  "open_key", "write_key", "verify_key"}

CertAtRest ==
    /\ certFile = AbsentFile /\ keyFile = AbsentFile /\ dirWritable = TRUE
    /\ now = 0 /\ nextPair = 0
    /\ wk = [w \in Workers |-> IdleWorker]
    /\ hist = [first |-> TRUE, faults |-> FALSE, restarts |-> FALSE]

\* First boot (no file), or a boot over the pair an earlier run left.
CertInit ==
    /\ \E had \in BOOLEAN :
          /\ certFile = IF had THEN FullFile(0, 0) ELSE AbsentFile
          /\ keyFile = IF had THEN FullFile(0, 0) ELSE AbsentFile
          /\ hist = [first |-> ~had, faults |-> FALSE, restarts |-> FALSE]
    /\ dirWritable \in BOOLEAN
    /\ now = 0 /\ nextPair = 0
    /\ wk = [w \in Workers |-> IdleWorker]

\* start(), line 28, left operand: not cert_path.exists().
start_check_cert(w) ==
    /\ wk[w].pc = "idle"
    /\ wk' = [wk EXCEPT ![w] =
          [@ EXCEPT !.pc = IF Exists(certFile) THEN "check_key" ELSE "mkdir",
                    !.alone = \A o \in Workers \ {w} : ~Generating(o),
                    !.sawAbsent = ~Exists(certFile),
                    !.sawExpired = Expired(certFile)]]
    /\ UNCHANGED <<certFile, keyFile, dirWritable, now, nextPair, hist, agentVars>>

\* start(), line 28, right operand, then lines 32-34 when both files exist.
start_check_key(w) ==
    /\ wk[w].pc = "check_key"
    /\ wk' = [wk EXCEPT ![w] =
          [@ EXCEPT !.pc = IF Exists(keyFile) THEN "serving" ELSE "mkdir",
                    !.sawAbsent = ~Exists(keyFile)]]
    /\ UNCHANGED <<certFile, keyFile, dirWritable, now, nextPair, hist, agentVars>>

\* _generate_certs, lines 66-103: the directories, the writability check
\* (PermissionError), the private key and the certificate built in memory.
generate_key(w) ==
    /\ wk[w].pc = "mkdir"
    /\ IF ~dirWritable
       THEN /\ wk' = [wk EXCEPT ![w].pc = "raised"]
            /\ hist' = [hist EXCEPT !.faults = TRUE]
            /\ UNCHANGED nextPair
       ELSE /\ nextPair < MaxPairs
            /\ nextPair' = nextPair + 1
            /\ wk' = [wk EXCEPT ![w] = [@ EXCEPT !.pc = "open_cert", !.gen = TRUE,
                                                 !.pair = nextPair + 1]]
            /\ UNCHANGED hist
    /\ UNCHANGED <<certFile, keyFile, dirWritable, now, agentVars>>

\* line 108: open(cert_path, "wb") truncates the file, or raises and leaves it.
open_cert(w) ==
    /\ wk[w].pc = "open_cert"
    /\ \/ /\ certFile' = OpenedFile
          /\ wk' = [wk EXCEPT ![w].pc = "write_cert"]
          /\ UNCHANGED hist
       \/ /\ wk' = [wk EXCEPT ![w].pc = "raised"]
          /\ hist' = [hist EXCEPT !.faults = TRUE]
          /\ UNCHANGED certFile
    /\ UNCHANGED <<keyFile, dirWritable, now, nextPair, agentVars>>

\* line 109: f.write(cert_bytes) and the close: all bytes, or an error that
\* leaves the file empty or half-written and is re-raised (lines 114-116).
write_cert(w) ==
    /\ wk[w].pc = "write_cert"
    /\ \/ /\ certFile' = FullFile(wk[w].pair, now)
          /\ wk' = [wk EXCEPT ![w].pc = "verify_cert"]
          /\ UNCHANGED hist
       \/ /\ \E f \in {certFile, PartialFile(wk[w].pair)} : certFile' = f
          /\ wk' = [wk EXCEPT ![w].pc = "raised"]
          /\ hist' = [hist EXCEPT !.faults = TRUE]
    /\ UNCHANGED <<keyFile, dirWritable, now, nextPair, agentVars>>

\* lines 111-113: IOError when the file is empty after the write.
verify_cert(w) ==
    /\ wk[w].pc = "verify_cert"
    /\ IF certFile.st = "empty"
       THEN /\ wk' = [wk EXCEPT ![w].pc = "raised"]
            /\ hist' = [hist EXCEPT !.faults = TRUE]
       ELSE /\ wk' = [wk EXCEPT ![w].pc = "open_key"]
            /\ UNCHANGED hist
    /\ UNCHANGED <<certFile, keyFile, dirWritable, now, nextPair, agentVars>>

\* line 125: open(key_path, "wb").
open_key(w) ==
    /\ wk[w].pc = "open_key"
    /\ \/ /\ keyFile' = OpenedFile
          /\ wk' = [wk EXCEPT ![w].pc = "write_key"]
          /\ UNCHANGED hist
       \/ /\ wk' = [wk EXCEPT ![w].pc = "raised"]
          /\ hist' = [hist EXCEPT !.faults = TRUE]
          /\ UNCHANGED keyFile
    /\ UNCHANGED <<certFile, dirWritable, now, nextPair, agentVars>>

\* line 126: f.write(key_bytes) and the close.
write_key(w) ==
    /\ wk[w].pc = "write_key"
    /\ \/ /\ keyFile' = FullFile(wk[w].pair, now)
          /\ wk' = [wk EXCEPT ![w].pc = "verify_key"]
          /\ UNCHANGED hist
       \/ /\ \E f \in {keyFile, PartialFile(wk[w].pair)} : keyFile' = f
          /\ wk' = [wk EXCEPT ![w].pc = "raised"]
          /\ hist' = [hist EXCEPT !.faults = TRUE]
    /\ UNCHANGED <<certFile, dirWritable, now, nextPair, agentVars>>

\* lines 128-139, then start() lines 32-34: the server goes on to serve.
verify_key(w) ==
    /\ wk[w].pc = "verify_key"
    /\ IF keyFile.st = "empty"
       THEN /\ wk' = [wk EXCEPT ![w].pc = "raised"]
            /\ hist' = [hist EXCEPT !.faults = TRUE]
       ELSE /\ wk' = [wk EXCEPT ![w].pc = "serving"]
            /\ UNCHANGED hist
    /\ UNCHANGED <<certFile, keyFile, dirWritable, now, nextPair, agentVars>>

\* The process is killed during the generation; a write in progress leaves
\* the file empty or half-written.
crash(w) ==
    /\ Generating(w)
    /\ wk' = [wk EXCEPT ![w].pc = "crashed"]
    /\ hist' = [hist EXCEPT !.faults = TRUE]
    /\ IF wk[w].pc = "write_cert"
       THEN /\ \E f \in {certFile, PartialFile(wk[w].pair)} : certFile' = f
            /\ UNCHANGED keyFile
       ELSE IF wk[w].pc = "write_key"
       THEN /\ \E f \in {keyFile, PartialFile(wk[w].pair)} : keyFile' = f
            /\ UNCHANGED certFile
       ELSE UNCHANGED <<certFile, keyFile>>
    /\ UNCHANGED <<dirWritable, now, nextPair, agentVars>>

\* The panel is started again: a later start().
restart(w) ==
    /\ wk[w].pc \in {"serving", "raised", "crashed"}
    /\ wk' = [wk EXCEPT ![w] = IdleWorker]
    /\ hist' = [hist EXCEPT !.restarts = TRUE]
    /\ UNCHANGED <<certFile, keyFile, dirWritable, now, nextPair, agentVars>>

\* Time passes.
tick ==
    /\ now < MaxNow
    /\ now' = now + TickDays
    /\ UNCHANGED <<certFile, keyFile, dirWritable, nextPair, wk, hist, agentVars>>

CertNext ==
    \/ \E w \in Workers : start_check_cert(w)
    \/ \E w \in Workers : start_check_key(w)
    \/ \E w \in Workers : generate_key(w)
    \/ \E w \in Workers : open_cert(w)
    \/ \E w \in Workers : write_cert(w)
    \/ \E w \in Workers : verify_cert(w)
    \/ \E w \in Workers : open_key(w)
    \/ \E w \in Workers : write_key(w)
    \/ \E w \in Workers : verify_key(w)
    \/ \E w \in Workers : crash(w)
    \/ \E w \in Workers : restart(w)
    \/ tick


AgentInit ==
    /\ records = [t \in TunnelIds |-> NoRecord]
    /\ active_tunnels = << >>
    /\ lock = [t \in TunnelIds |-> 0]
    /\ req = [r \in 1..(MaxReqs + 1) |-> NoReq]
    /\ nreq = 0
    /\ lastAcq = [t \in TunnelIds |-> 0]
    /\ lastDone = [t \in TunnelIds |-> 0]

Init == AgentInit /\ CertAtRest

Next ==
    \/ \E tid \in TunnelIds, ty \in TunnelTypes, sp \in TunnelSpecs : apply_tunnel_call(tid, ty, sp)
    \/ \E r \in 1..MaxReqs : apply_tunnel_acquire(r)
    \/ \E r \in 1..MaxReqs : apply_tunnel_return(r)
    \/ \E tid \in TunnelIds : remove_tunnel_call(tid)
    \/ \E r \in 1..MaxReqs : remove_tunnel_acquire(r)
    \/ \E r \in 1..MaxReqs : remove_tunnel_return(r)
    \/ \E tid \in TunnelIds : get_tunnel_status(tid)
    \/ \E tid \in TunnelIds, b \in ClientBytes : push_usage(tid, b)
    \/ get_status

Spec == Init /\ [][Next]_vars

CertBoot == AgentInit /\ CertInit

CertSpec == CertBoot /\ [][CertNext]_vars

\* ------------------------------------------------------- claims: agent API
Done(r) == r \in 1..nreq /\ req[r].pc = "done"
KeySet(d) == {d[i].key : i \in 1..Len(d)}

\* C1: a tunnel status query that follows a successful apply of (tunnel_id,
\* type, spec), with no other operation on that id in between, answers success
\* with a record whose state is Active and whose applied_spec is the submitted
\* spec.
C1_StatusAfterApply ==
    \A s \in 1..nreq :
        (req[s].op = "tstatus" /\ req[s].quiet /\ req[s].prev # 0) =>
            LET a == req[req[s].prev] IN
            (a.op = "apply" /\ a.resp.status = "success") =>
                /\ req[s].resp.status = "success"
                /\ req[s].resp.data.state = "Active"
                /\ req[s].resp.data.applied_spec = a.spec

\* C1 witness: a re-apply with another spec succeeded and the status query that
\* follows shows the new spec.
C1_Witness ==
    \E a1 \in 1..nreq, a2 \in 1..nreq, s \in 1..nreq :
        /\ a1 < a2 /\ a2 < s
        /\ req[a1].op = "apply" /\ req[a2].op = "apply" /\ req[s].op = "tstatus"
        /\ req[a1].tunnel_id = req[s].tunnel_id /\ req[a2].tunnel_id = req[s].tunnel_id
        /\ req[a1].resp.status = "success" /\ req[a2].resp.status = "success"
        /\ req[a1].spec # req[a2].spec
        /\ req[s].prev = a2 /\ req[s].quiet
        /\ req[s].resp.data.state = "Active"
        /\ req[s].resp.data.applied_spec = req[a2].spec

C3_Remove ==
    \A r \in 1..nreq :
        (req[r].op = "remove" /\ Done(r)) =>
            /\ (req[r].before = "None") =>
                   (req[r].resp.status = "500" /\ req[r].resp.detail = "NotFoundError")
            /\ (req[r].before # "None") => req[r].resp.status = "success"
            /\ (/\ req[r].before # "None"
                /\ lastDone[req[r].tunnel_id] = r
                /\ ~InFlight(req[r].tunnel_id)) =>
                   records[req[r].tunnel_id].state = "Removed"

\* C3 witness: a second remove of an already removed tunnel succeeded.
C3_Witness ==
    \E r1 \in 1..nreq, r2 \in 1..nreq :
        /\ r1 < r2
        /\ req[r1].op = "remove" /\ req[r2].op = "remove"
        /\ req[r1].tunnel_id = req[r2].tunnel_id
        /\ req[r1].resp.status = "success" /\ req[r2].resp.status = "success"
        /\ req[r2].before = "Removed"
        /\ records[req[r2].tunnel_id].state = "Removed"

\* C4 as stated: a usage push for a tunnel_id that is not in the active tunnels
\* is answered {status: error}.
C4_NonActiveIsError ==
    \A r \in 1..nreq :
        (req[r].op = "usage" /\ Done(r) /\ ~req[r].wasActive) =>
            req[r].resp.status = "error"

\* C5: a usage push for a tunnel_id in the active tunnels is answered ok with
\* the adapter's reading in bytes, truncated, whatever the client sent; error
\* when the adapter's read raises.
C5_ServerAuthoritative ==
    \A r \in 1..nreq :
        (req[r].op = "usage" /\ Done(r) /\ req[r].wasActive) =>
            IF req[r].usage.raised
            THEN req[r].resp.status = "error"
            ELSE /\ req[r].resp.status = "ok"
                 /\ req[r].resp.bytes_used >= 0
                 /\ req[r].resp.bytes_used * UsageDenom <= req[r].usage.mb * BytesPerMb
                 /\ req[r].usage.mb * BytesPerMb < (req[r].resp.bytes_used + 1) * UsageDenom

\* C5 witness: the adapter read 1.5 bytes, the client sent 9, the answer is 1.
C5_Witness ==
    \E r \in 1..nreq :
        /\ req[r].op = "usage" /\ req[r].wasActive /\ ~req[r].usage.raised
        /\ req[r].usage.mb = 6 /\ req[r].bytes_used = 9
        /\ req[r].resp.status = "ok" /\ req[r].resp.bytes_used = 1

\* C9: an apply, remove or tunnel-status request calls the adapter manager
\* once; the response is success exactly when that call returned, and a 500
\* carrying the error when it raised.
C9_ErrorsSurface ==
    \A r \in 1..nreq :
        req[r].op \in {"apply", "remove", "tstatus"} =>
            /\ req[r].calls = 1
            /\ Done(r) =>
                  IF req[r].raised = ""
                  THEN req[r].resp.status = "success"
                  ELSE req[r].resp.status = "500" /\ req[r].resp.detail = req[r].raised

\* C9 witness: one behaviour with a failed apply, a failed remove and a failed
\* status query, each answered 500.
C9_Witness ==
    \E a \in 1..nreq, b \in 1..nreq, c \in 1..nreq :
        /\ req[a].op = "apply" /\ req[a].raised = "TunnelApplyError"
        /\ req[a].resp.status = "500"
        /\ req[b].op = "remove" /\ req[b].raised = "NotFoundError"
        /\ req[b].resp.status = "500"
        /\ req[c].op = "tstatus" /\ req[c].raised = "NotFoundError"
        /\ req[c].resp.status = "500"

\* C10: the step that serves GET /status answers with a count equal to the
\* number of ids listed, the ids pairwise distinct and exactly the keys of
\* active_tunnels at that step, and leaves active_tunnels unchanged.
C10_StatusSnapshot ==
    [][(nreq' = nreq + 1 /\ req'[nreq'].op = "status") =>
          LET resp == req'[nreq'].resp IN
          /\ resp.status = "ok"
          /\ resp.active_tunnels = Len(resp.tunnels)
          /\ \A i \in 1..Len(resp.tunnels), j \in 1..Len(resp.tunnels) :
                 resp.tunnels[i] = resp.tunnels[j] => i = j
          /\ {resp.tunnels[i] : i \in 1..Len(resp.tunnels)} = KeySet(active_tunnels)
          /\ resp.active_tunnels = Cardinality(KeySet(active_tunnels))
          /\ active_tunnels' = active_tunnels]_vars

\* C10 witness: GET /status served while an apply of another tunnel was in
\* flight, listing the one active tunnel.
C10_Witness ==
    \E r \in 1..nreq, q \in 1..nreq :
        /\ req[r].op = "status" /\ req[r].resp.active_tunnels = 1
        /\ q < r /\ req[q].op = "apply" /\ req[q].pc = "in_adapter"
        /\ ~DictHas(active_tunnels, req[q].tunnel_id)
\* ------------------------------------------- claims: identity bootstrap
\* C6 as stated: a start() that completed normally regenerated the pair exactly
\* when, at its check, the certificate or the key was absent or the stored
\* certificate was expired.
C6_RegeneratesWhenItMust ==
    \A w \in Workers :
        wk[w].pc = "serving" =>
            (wk[w].gen <=> (wk[w].sawAbsent \/ wk[w].sawExpired))

\* C7 as stated: no start() that began and ended with no other worker in the
\* middle of a generation completes normally while the certificate or the
\* key file is missing, empty or half-written.
C7_NoServingWithoutIdentity ==
    [][\A w \in Workers :
          (/\ wk[w].pc # "serving" /\ wk'[w].pc = "serving"
           /\ wk[w].alone
           /\ \A o \in Workers \ {w} : ~Generating(o)) =>
              (certFile'.st = "full" /\ keyFile'.st = "full")]_vars

\* C8 as stated: on first boot, with no fault and no restart, at most one of
\* the concurrent start() calls executes the generation, and once all of them
\* serve the certificate and the key on disk are of the same key pair.
C8_OneGeneration ==
    (hist.first /\ ~hist.faults /\ ~hist.restarts) =>
        /\ Cardinality({w \in Workers : wk[w].gen}) <= 1
        /\ (\A w \in Workers : wk[w].pc = "serving") =>
               (/\ certFile.st = "full" /\ keyFile.st = "full"
                /\ certFile.pair = keyFile.pair)
====
